---- MODULE Spec2Model ----
(***************************************************************************)
(* A model of pep257.py: the position mapper (abs_pos, rel_pos), the       *)
(* token-driven extractors (parse_top_level, skip_indented_block,          *)
(* parse_methods), the docstring parsers, the runner (check_source), the   *)
(* diagnostic record (Error) and the report loop (main).                   *)
(*                                                                         *)
(* A source text is a sequence of one-character strings.                   *)
(***************************************************************************)
EXTENDS Integers, Sequences, FiniteSets, TLC

VARIABLES
    source,     \* the text of the file under analysis
    pc,         \* the operation that runs next
    marker,     \* position mapper: the (line, char) given to abs_pos
    offset,     \* position mapper: what abs_pos returned
    position,   \* position mapper: what rel_pos returned
    stream,     \* the token stream a scan reads
    moddoc,     \* what parse_module_docstring returned
    functions,  \* what parse_functions returned
    classes,    \* what parse_classes returned
    methods,    \* what parse_methods returned
    evals,      \* the (keyword, check, context, docstring) check_source evaluated
    errors,     \* the Error objects collected
    todo,       \* main: the filenames still to analyse
    report,     \* main: sorted(errors), what is still to print
    printed     \* main: the errors printed, in order

posVars == <<marker, offset, position>>

parseVars == <<moddoc, functions, classes, methods>>

mainVars == <<todo, report, printed>>

vars == <<source, pc, posVars, stream, parseVars, evals, errors, mainVars>>

\* ---------------------------------------------------------------- bounds
\* the longest text given to the position mapper
MaxLen == 4

\* the most lines of a file given to check_source
MaxLines == 4

\* the most lines of a file given to the extractors alone
MaxBlockLines == 5

\* the most lines of the file whose token stream is cut short
MaxStreamLines == 3

\* the most lines of a file given to main
MaxFileLines == 4

\* ------------------------------------------------------- python helpers
NL == "\n"

\* None, where a text (a docstring, a message) is expected
None == <<"None">>

\* the value of a result that is an exception
NoValue == <<0, 0>>

Min(a, b) == IF a < b THEN a ELSE b

Max(a, b) == IF a > b THEN a ELSE b

\* seq[:stop] with Python's slice rules (a negative stop counts from the end).
SliceTo(seq, stop) ==
    LET n == Len(seq)
        k == IF stop < 0 THEN Max(n + stop, 0) ELSE Min(stop, n)
    IN  SubSeq(seq, 1, k)

\* seq[start:stop] for 0 <= start, 0 <= stop (clamped to the length).
Slice(seq, start, stop) ==
    SubSeq(seq, Min(start, Len(seq)) + 1, Min(stop, Len(seq)))

\* StringIO(source).readlines(): the lines, each keeping its newline.
RECURSIVE ReadLinesFrom(_, _, _)
ReadLinesFrom(s, i, cur) ==
    IF i > Len(s)
    THEN IF cur = <<>> THEN <<>> ELSE <<cur>>
    ELSE IF s[i] = NL
         THEN <<Append(cur, s[i])>> \o ReadLinesFrom(s, i + 1, <<>>)
         ELSE ReadLinesFrom(s, i + 1, Append(cur, s[i]))

readlines(s) == ReadLinesFrom(s, 1, <<>>)

\* len(''.join(lines))
RECURSIVE JoinLen(_)
JoinLen(lines) ==
    IF lines = <<>> THEN 0 ELSE Len(Head(lines)) + JoinLen(Tail(lines))

\* ------------------------------------------------------ position mapper
\* abs_pos(marker, source): no range check, the slice clamps.
abs_pos(m, s) ==
    LET line == m[1]
        char == m[2]
        lines == readlines(s)
    IN  [err |-> "none", val |-> JoinLen(SliceTo(lines, line - 1)) + char]

\* the while loop of rel_pos: pop lines while they are longer than char.
RECURSIVE PopWhileLonger(_, _)
PopWhileLonger(lines, char) ==
    IF JoinLen(lines) > char
    THEN PopWhileLonger(SubSeq(lines, 1, Len(lines) - 1), char)
    ELSE lines

rel_pos(char, s) ==
    LET lines == readlines(s)
    IN  IF ~(JoinLen(lines) >= char)
        THEN [err |-> "AssertionError", val |-> NoValue]
        ELSE IF char < 0
        THEN [err |-> "IndexError", val |-> NoValue]
        ELSE LET rest == PopWhileLonger(lines, char)
             IN  [err |-> "none",
                  val |-> <<Len(rest) + 1, char - JoinLen(rest)>>]

\* ------------------------------------------------------------ tokenizer
(* tokenize.generate_tokens, on a source alphabet in which every lexeme is  *)
(* one character: "D" the NAME def, "C" the NAME class, "p" any other NAME, *)
(* ":" an OP, "s" and "t" two STRING literals, "#" a comment, " " a blank   *)
(* and "\n" the line end.  A token is (kind, value, (line, char)); its      *)
(* value is the text                                                        *)
(* of the lexeme.  An inconsistent dedent, which the tokenizer reports by   *)
(* raising IndentationError, is the last element of the stream.            *)
kw_def == <<"D">>

kw_class == <<"C">>

Tok(k, v, l, c) == [kind |-> k, value |-> v, line |-> l, char |-> c]

NoToken == [kind |-> "None", value |-> None, line |-> 0, char |-> -1]

Range(f) == {f[x] : x \in DOMAIN f}

KindOf(c) ==
    IF c \in {"s", "t"} THEN "STRING" ELSE IF c = ":" THEN "OP" ELSE "NAME"

RECURSIVE LeadingBlanks(_, _)
LeadingBlanks(line, n) ==
    IF n < Len(line) /\ line[n + 1] = " "
    THEN LeadingBlanks(line, n + 1)
    ELSE n

\* the text of a line without its line end
StripNL(line) ==
    IF line # <<>> /\ line[Len(line)] = NL
    THEN SubSeq(line, 1, Len(line) - 1)
    ELSE line

\* the tokens of a statement line from its character j (1-based) on
RECURSIVE LexFrom(_, _, _)
LexFrom(line, j, lnum) ==
    IF j > Len(line) THEN <<>>
    ELSE IF line[j] = " " THEN LexFrom(line, j + 1, lnum)
    ELSE IF line[j] = NL THEN <<Tok("NEWLINE", <<NL>>, lnum, j - 1)>>
    ELSE IF line[j] = "#"
         THEN <<Tok("COMMENT", SubSeq(StripNL(line), j, Len(StripNL(line))),
                    lnum, j - 1)>>
              \o LexFrom(line, Len(StripNL(line)) + 1, lnum)
    ELSE <<Tok(KindOf(line[j]), <<line[j]>>, lnum, j - 1)>>
         \o LexFrom(line, j + 1, lnum)

\* the DEDENT tokens of a line that starts at col, popping the indent stack
RECURSIVE Unindent(_, _, _, _)
Unindent(indents, col, lnum, acc) ==
    IF col < indents[Len(indents)]
    THEN IF col \notin Range(indents)
         THEN [err |-> TRUE, toks |-> acc, indents |-> indents]
         ELSE Unindent(SubSeq(indents, 1, Len(indents) - 1), col, lnum,
                       Append(acc, Tok("DEDENT", <<>>, lnum, col)))
    ELSE [err |-> FALSE, toks |-> acc, indents |-> indents]

\* at the end of the input: a DEDENT for every open indent, then ENDMARKER
EndTokens(indents, lnum) ==
    [k \in 1..(Len(indents) - 1) |-> Tok("DEDENT", <<>>, lnum, 0)]
        \o <<Tok("ENDMARKER", <<>>, lnum, 0)>>

RECURSIVE TokenizeLines(_, _, _)
TokenizeLines(lines, i, indents) ==
    IF i > Len(lines) THEN EndTokens(indents, Len(lines) + 1)
    ELSE
    LET line == lines[i]
        col == LeadingBlanks(line, 0)
        top == indents[Len(indents)]
    IN  IF col = Len(line) THEN EndTokens(indents, i)
        ELSE IF line[col + 1] = "#"
        THEN <<Tok("COMMENT", SubSeq(StripNL(line), col + 1, Len(StripNL(line))),
                   i, col),
               Tok("NL", SubSeq(line, Len(StripNL(line)) + 1, Len(line)),
                   i, Len(StripNL(line)))>>
             \o TokenizeLines(lines, i + 1, indents)
        ELSE IF line[col + 1] = NL
        THEN <<Tok("NL", <<NL>>, i, col)>> \o TokenizeLines(lines, i + 1, indents)
        ELSE
        LET pushed == IF col > top THEN Append(indents, col) ELSE indents
            indent == IF col > top
                      THEN <<Tok("INDENT", SubSeq(line, 1, col), i, 0)>>
                      ELSE <<>>
            un == Unindent(pushed, col, i, <<>>)
        IN  IF un.err
            THEN indent \o un.toks \o <<Tok("IndentationError", <<>>, i, col)>>
            ELSE indent \o un.toks \o LexFrom(line, col + 1, i)
                 \o TokenizeLines(lines, i + 1, un.indents)

generate_tokens(s) == TokenizeLines(readlines(s), 1, <<0>>)

\* ------------------------------------------------------- source programs
(* The analysed files: up to MaxLines logical lines, each an indentation    *)
(* depth and a statement form, indented as a Python program is: one deeper  *)
(* after a block header, at most as deep as the last statement otherwise.   *)
LineText(kind) ==
    CASE kind = "def"     -> <<"D", ":", NL>>
      [] kind = "def1"    -> <<"D", ":", "p", NL>>
      [] kind = "class"   -> <<"C", ":", NL>>
      [] kind = "if"      -> <<"p", ":", NL>>
      [] kind = "str"     -> <<"s", NL>>
      [] kind = "str2"    -> <<"t", NL>>
      [] kind = "stmt"    -> <<"p", NL>>
      [] kind = "comment" -> <<"#", NL>>

Headers == {"def", "class", "if"}

Blanks(n) == [k \in 1..n |-> " "]

RECURSIVE Render(_)
Render(prog) ==
    IF prog = <<>> THEN <<>>
    ELSE Blanks(Head(prog)[1]) \o LineText(Head(prog)[2]) \o Render(Tail(prog))

\* the programs of at most n more lines that continue one whose last
\* statement is at depth cur (open: the last statement is a block header)
RECURSIVE Continuations(_, _, _, _)
Continuations(n, cur, open, kinds) ==
    (IF open THEN {} ELSE {<<>>})
    \cup
    (IF n = 0 THEN {}
     ELSE UNION {
        LET next == IF k = "comment" THEN cur ELSE d
            nopen == IF k = "comment" THEN open ELSE k \in Headers
        IN  {<<<<d, k>>>> \o rest : rest \in Continuations(n - 1, next, nopen, kinds)}
        : d \in (IF open THEN {cur + 1} ELSE 0..cur), k \in kinds })

Programs(n, kinds) == {Render(p) : p \in Continuations(n, 0, FALSE, kinds)}

\* ----------------------------------------------------------- extractors
(* A token generator is the stream and the index of the next token; next()  *)
(* on a stream that is used up raises StopIteration, which ends the         *)
(* generator that called it, and on the IndentationError element raises it. *)
Exhausted(toks, i) == i > Len(toks)

Raises(toks, i) == i <= Len(toks) /\ toks[i].kind = "IndentationError"

\* parse_top_level, line 62: the token that starts a definition
IsStartToken(cur, keyword) ==
    cur.kind = "NAME" /\ cur.value = keyword /\ cur.char = 0

\* a variant of line 65 that ends the definition at any DEDENT
IsEndToken_AnyColumn(cur) ==
    cur.kind = "DEDENT" /\ cur.value = <<>>

\* parse_top_level, line 65: the token that ends a definition
IsEndToken(cur) ==
    cur.kind = "DEDENT" /\ cur.value = <<>> /\ cur.char = 0

Results(err, spans) == [err |-> err, spans |-> spans]

\* the loop of parse_top_level over a token stream; spans are
\* <<start marker, end marker, index of start token, index of end token>>
RECURSIVE TopLevelScan(_, _, _, _, _, _, _)
TopLevelScan(toks, keyword, i, cur, phase, st, acc) ==
    IF phase = "start" /\ IsStartToken(cur, keyword)
    THEN TopLevelScan(toks, keyword, i, cur, "end", <<cur.line, cur.char, i - 1>>, acc)
    ELSE IF phase = "end" /\ IsEndToken(cur)
    THEN TopLevelScan(toks, keyword, i, cur, "start", st,
             Append(acc, [start |-> <<st[1], st[2]>>,
                          end |-> <<cur.line, cur.char>>,
                          si |-> st[3], ei |-> i - 1]))
    ELSE IF Exhausted(toks, i) THEN Results("none", acc)
    ELSE IF Raises(toks, i) THEN Results("IndentationError", <<>>)
    ELSE TopLevelScan(toks, keyword, i + 1, toks[i], phase, st, acc)

parse_top_level_tokens(toks, keyword) ==
    TopLevelScan(toks, keyword, 1, NoToken, "start", <<0, 0, 0>>, <<>>)

\* source[abs_pos(start, source): abs_pos(end, source)] of every span
Sliced(src, r) ==
    LET spans == r.spans
    IN  Results(r.err,
            [k \in 1..Len(spans) |->
                LET lo == abs_pos(spans[k].start, src).val
                    hi == abs_pos(spans[k].end, src).val
                IN  [text |-> Slice(src, lo, hi), lo |-> lo, hi |-> hi,
                     start |-> spans[k].start, end |-> spans[k].end,
                     si |-> spans[k].si, ei |-> spans[k].ei]])

parse_top_level(src, keyword) ==
    Sliced(src, parse_top_level_tokens(generate_tokens(src), keyword))

parse_functions(src) == parse_top_level(src, kw_def)

parse_classes(src) == parse_top_level(src, kw_class)

\* skip_indented_block, lines 84-90: the for loop from token i at depth indent
RECURSIVE SkipCount(_, _, _)
SkipCount(toks, i, indent) ==
    IF Exhausted(toks, i) THEN [status |-> "None", next |-> i]
    ELSE IF Raises(toks, i) THEN [status |-> "IndentationError", next |-> i]
    ELSE LET d == IF toks[i].kind = "INDENT" THEN indent + 1
                  ELSE IF toks[i].kind = "DEDENT" THEN indent - 1
                  ELSE indent
         IN  IF d = 0 THEN [status |-> "ok", next |-> i + 1]
             ELSE SkipCount(toks, i + 1, d)

\* skip_indented_block, lines 80-82: next() until the first INDENT
RECURSIVE SkipToIndent(_, _)
SkipToIndent(toks, i) ==
    IF Exhausted(toks, i) THEN [status |-> "StopIteration", next |-> i]
    ELSE IF Raises(toks, i) THEN [status |-> "IndentationError", next |-> i]
    ELSE IF toks[i].kind = "INDENT" THEN SkipCount(toks, i + 1, 1)
    ELSE SkipToIndent(toks, i + 1)

\* the token skip_indented_block returns is toks[next - 1]
skip_indented_block(toks, i) == SkipToIndent(toks, i)

\* the loop of parse_methods over a token stream
RECURSIVE MethodScan(_, _, _, _)
MethodScan(toks, i, cur, acc) ==
    IF cur.kind = "NAME" /\ cur.value = kw_def
    THEN LET r == skip_indented_block(toks, i)
         IN  IF r.status = "StopIteration" THEN Results("none", acc)
             ELSE IF r.status = "None" THEN Results("TypeError", <<>>)
             ELSE IF r.status = "IndentationError"
                  THEN Results("IndentationError", <<>>)
             ELSE MethodScan(toks, r.next, toks[r.next - 1],
                      Append(acc, [start |-> <<cur.line, cur.char>>,
                                   end |-> <<toks[r.next - 1].line,
                                             toks[r.next - 1].char>>,
                                   si |-> i - 1, ei |-> r.next - 1]))
    ELSE IF Exhausted(toks, i) THEN Results("none", acc)
    ELSE IF Raises(toks, i) THEN Results("IndentationError", <<>>)
    ELSE MethodScan(toks, i + 1, toks[i], acc)

parse_methods_tokens(toks) == MethodScan(toks, 1, NoToken, <<>>)

\* ''.join(spans)
RECURSIVE Join(_)
Join(texts) == IF texts = <<>> THEN <<>> ELSE Head(texts) \o Join(Tail(texts))

Texts_of(spans) == [k \in 1..Len(spans) |-> spans[k].text]

\* line 95: the source parse_methods tokenizes
class_source(src) == Join(Texts_of(parse_classes(src).spans))

\* parse_methods, lines 96-105, given what parse_classes returned
MethodsOf(cls) ==
    LET joined == Join(Texts_of(cls.spans))
    IN  IF cls.err # "none"
        THEN Results(cls.err, <<>>)
        ELSE Sliced(joined, parse_methods_tokens(generate_tokens(joined)))

parse_methods(src) == MethodsOf(parse_classes(src))

\* ----------------------------------------------------- docstring parser
Value(err, val) == [err |-> err, val |-> val]

\* parse_module_docstring, lines 31-36: the loop from token i
RECURSIVE ModuleDocstringScan(_, _)
ModuleDocstringScan(toks, i) ==
    IF Exhausted(toks, i) THEN Value("none", None)
    ELSE IF Raises(toks, i) THEN Value("IndentationError", None)
    ELSE IF toks[i].kind \in {"COMMENT", "NEWLINE", "NL"}
         THEN ModuleDocstringScan(toks, i + 1)
    ELSE IF toks[i].kind = "STRING" THEN Value("none", toks[i].value)
    ELSE ModuleDocstringScan(toks, i + 1)

parse_module_docstring(src) == ModuleDocstringScan(generate_tokens(src), 1)

\* parse_docstring, lines 46-47: next() until the first INDENT
RECURSIVE FirstIndent(_, _)
FirstIndent(toks, i) ==
    IF Exhausted(toks, i) \/ Raises(toks, i) \/ toks[i].kind = "INDENT"
    THEN i
    ELSE FirstIndent(toks, i + 1)

\* parse_docstring, lines 43-52
DefinitionDocstring(toks) ==
    LET i == FirstIndent(toks, 1)
    IN  IF Raises(toks, i) \/ Raises(toks, i + 1)
        THEN Value("IndentationError", None)
        ELSE IF Exhausted(toks, i) \/ Exhausted(toks, i + 1)
        THEN Value("none", None)
        ELSE IF toks[i + 1].kind = "STRING"
        THEN Value("none", toks[i + 1].value)
        ELSE Value("none", None)

\* what.startswith('module'), over the keywords of check_source
StartsWithModule(what) == what = "module_docstring"

parse_docstring(src, what) ==
    IF StartsWithModule(what)
    THEN parse_module_docstring(src)
    ELSE DefinitionDocstring(generate_tokens(src))

\* ---------------------------------------------------------------- checks
(* The string literals of the alphabet: "s" stands for the triple double   *)
(* quoted literal of Does stuff, and "t" for the triple single quoted      *)
(* literal of Do stuff. (with its period).  A check returns None or its    *)
(* message; none of the five gives offsets.                                *)
check_imperative_mood(docstring, context) ==
    IF docstring # None /\ docstring = <<"s">>
    THEN <<"imperative mood">> ELSE None

check_ends_with_period(docstring, context) ==
    IF docstring # None /\ ~(docstring = <<"t">>)
    THEN <<"end with a period">> ELSE None

check_one_liners(docstring, context) == None

check_backslashes(docstring, context) == None

check_tripple_double_quotes(docstring, context) ==
    IF docstring # None /\ ~(docstring = <<"s">>)
    THEN <<"tripple double quotes">> ELSE None

Checks ==
    <<"check_imperative_mood", "check_ends_with_period", "check_one_liners",
      "check_backslashes", "check_tripple_double_quotes">>

\* the name of the check's first parameter
FirstArg(check) ==
    IF check = "check_imperative_mood" THEN "def_docstring" ELSE "docstring"

Call(check, docstring, context) ==
    CASE check = "check_imperative_mood" -> check_imperative_mood(docstring, context)
      [] check = "check_ends_with_period" -> check_ends_with_period(docstring, context)
      [] check = "check_one_liners" -> check_one_liners(docstring, context)
      [] check = "check_backslashes" -> check_backslashes(docstring, context)
      [] check = "check_tripple_double_quotes" ->
            check_tripple_double_quotes(docstring, context)

find_checks(keyword) == SelectSeq(Checks, LAMBDA c : FirstArg(c) = keyword)

\* ------------------------------------------------------------- contexts
\* a context: its text, its kind, and where its text lies in the file
Context(text, kind, lo, hi) == [text |-> text, kind |-> kind, lo |-> lo, hi |-> hi]

\* the offset in the file of offset o of ''.join(class spans)
RECURSIVE FileOffset(_, _)
FileOffset(spans, o) ==
    IF spans = <<>> THEN o
    ELSE IF o <= Len(Head(spans).text) THEN Head(spans).lo + o
    ELSE FileOffset(Tail(spans), o - Len(Head(spans).text))

AsContexts(kind, r) ==
    [k \in 1..Len(r.spans) |->
        Context(r.spans[k].text, kind, r.spans[k].lo, r.spans[k].hi)]

\* the methods as contexts, given what parse_classes returned
MethodContextsOf(cls) ==
    LET spans == MethodsOf(cls).spans
    IN  [k \in 1..Len(spans) |->
            Context(spans[k].text, "method",
                    FileOffset(cls.spans, spans[k].lo),
                    FileOffset(cls.spans, spans[k].hi))]

MethodContexts(src) == MethodContextsOf(parse_classes(src))

ModuleContext(src) == <<Context(src, "module", 0, Len(src))>>

FunctionContexts(src) == AsContexts("function", parse_functions(src))

ClassContexts(src) == AsContexts("class", parse_classes(src))

\* parse_contexts, lines 119-131, given the lists its calls return
ContextsOf(kind, module, funcs, clss, meths) ==
    CASE kind = "module_docstring" -> module
      [] kind = "function_docstring" -> funcs
      [] kind = "class_docstring" -> clss
      [] kind = "method_docstring" -> meths
      [] kind = "def_docstring" -> funcs \o meths
      [] kind = "docstring" -> module \o funcs \o clss \o meths

parse_contexts(src, kind) ==
    ContextsOf(kind, ModuleContext(src), FunctionContexts(src),
               ClassContexts(src), MethodContexts(src))

\* ----------------------------------------------------------- diagnostics
\* str.find: the least offset at which sub occurs in s, or -1
Find(s, sub) ==
    LET hits == {o \in 0..(Len(s) - Len(sub)) : SubSeq(s, o + 1, o + Len(sub)) = sub}
    IN  IF hits = {} THEN -1 ELSE CHOOSE o \in hits : \A h \in hits : o <= h

\* Error.__init__, lines 155-160, 166 and 172, given self.start and self.end
ErrorAt(filename, docstring, context, explanation, message, start, end, at, to) ==
    [filename |-> filename, docstring |-> docstring, context |-> context,
     message |-> message, explanation |-> explanation,
     start |-> start, end |-> end,
     err |-> IF at.err # "none" THEN at.err ELSE to.err,
     pos |-> at.val, end_pos |-> to.val]

\* Error.__init__, line 169: self.end, given self.start
ErrorFrom(filename, src, docstring, context, explanation, message, start) ==
    ErrorAt(filename, docstring, context, explanation, message,
            start, start + Len(docstring),
            rel_pos(start, src), rel_pos(start + Len(docstring), src))

\* Error.__init__ with start = None and end = None
Error(filename, src, docstring, context, explanation, message) ==
    ErrorFrom(filename, src, docstring, context, explanation, message,
              Find(src, docstring))

\* ---------------------------------------------------------------- runner
Keywords ==
    <<"module_docstring", "function_docstring", "class_docstring",
      "method_docstring", "def_docstring", "docstring">>

RECURSIVE Flatten(_)
Flatten(seqs) == IF seqs = <<>> THEN <<>> ELSE Head(seqs) \o Flatten(Tail(seqs))

\* the evaluations of check_source, in its order: keyword, check, context
(* parse_contexts and parse_docstring are functions of the source alone:   *)
(* what the calls of one run return is computed once and used at every     *)
(* call of the loops.                                                      *)
\* lines 141-142: one check on one context, doc being what parse_docstring
\* returned for the context
Evaluation(keyword, check, context, doc) ==
    [keyword |-> keyword, check |-> check, context |-> context,
     docstring |-> doc.val, err |-> doc.err,
     result |-> Call(check, doc.val, context.text)]

\* lines 139-142: the checks of one keyword on its contexts
CheckContexts(keyword, chks, ctxs, docs) ==
    Flatten([c \in 1..Len(chks) |->
        [x \in 1..Len(ctxs) |-> Evaluation(keyword, chks[c], ctxs[x], docs[x])]])

\* line 141 on every context of a keyword
Docstrings(ctxs, keyword) ==
    [x \in 1..Len(ctxs) |-> parse_docstring(ctxs[x].text, keyword)]

\* the loops of lines 139-140 for one keyword; without a check of the
\* keyword, parse_contexts is not called
KeywordEvaluations(keyword, chks, module, funcs, clss, meths) ==
    IF chks = <<>> THEN <<>>
    ELSE CheckContexts(keyword, chks,
             ContextsOf(keyword, module, funcs, clss, meths),
             Docstrings(ContextsOf(keyword, module, funcs, clss, meths), keyword))

\* the loop of line 138, given the lists the calls of parse_contexts return
EvaluationsOf(module, funcs, clss, meths) ==
    Flatten([k \in 1..Len(Keywords) |->
        KeywordEvaluations(Keywords[k], find_checks(Keywords[k]),
                           module, funcs, clss, meths)])

EvaluationsGiven(src, cls) ==
    EvaluationsOf(ModuleContext(src), FunctionContexts(src),
                  AsContexts("class", cls), MethodContextsOf(cls))

Evaluations(src) == EvaluationsGiven(src, parse_classes(src))

\* lines 143-145: the Error of an evaluation whose result is not None
ErrorOf(filename, src, hit) ==
    Error(filename, src, hit.docstring, hit.context, hit.check, hit.result)

Hits(evs) == SelectSeq(evs, LAMBDA e : e.result # None)

ErrorsOf(filename, src, hits) ==
    [k \in 1..Len(hits) |-> ErrorOf(filename, src, hits[k])]

\* the Error objects check_source yields
Errors(src, filename, evs) == ErrorsOf(filename, src, Hits(evs))

\* ----------------------------------------------- position specification
Chars == {"a", NL}

Texts == UNION {[1..n -> Chars] : n \in 0..MaxLen}

NoPosition ==
    /\ marker = <<0, 0>>
    /\ offset = Value("none", 0)
    /\ position = Value("none", NoValue)

NoParse ==
    /\ moddoc = Value("none", None)
    /\ functions = Results("none", <<>>)
    /\ classes = Results("none", <<>>)
    /\ methods = Results("none", <<>>)

NoMain ==
    /\ todo = <<>>
    /\ report = <<>>
    /\ printed = <<>>

InitPos ==
    /\ source \in Texts
    /\ marker \in (1..(MaxLen + 1)) \X (0..MaxLen)
    /\ offset = Value("none", 0)
    /\ position = Value("none", NoValue)
    /\ pc = "start"
    /\ stream = <<>>
    /\ NoParse
    /\ evals = <<>>
    /\ errors = <<>>
    /\ NoMain

AbsPos ==
    /\ pc = "start"
    /\ offset' = abs_pos(marker, source)
    /\ pc' = "abs"
    /\ UNCHANGED <<source, marker, position, stream, parseVars, evals, errors, mainVars>>

RelPos ==
    /\ pc = "abs"
    /\ offset.err = "none"
    /\ position' = rel_pos(offset.val, source)
    /\ pc' = "rel"
    /\ UNCHANGED <<source, marker, offset, stream, parseVars, evals, errors, mainVars>>

NextPos == AbsPos \/ RelPos

SpecPos == InitPos /\ [][NextPos]_vars

\* --------------------------------------------- analysis of one file
(* One file goes through the operations in turn: parse_module_docstring,   *)
(* parse_functions, parse_classes, parse_methods and check_source.         *)
AllKinds == {"def", "def1", "class", "if", "str", "str2", "stmt", "comment"}

BlockKinds == {"def", "def1", "class", "if", "stmt"}

Init ==
    /\ source \in Programs(MaxLines, AllKinds)
    /\ pc = "start"
    /\ NoPosition
    /\ stream = <<>>
    /\ NoParse
    /\ evals = <<>>
    /\ errors = <<>>
    /\ NoMain

InitExtract ==
    /\ source \in Programs(MaxBlockLines, BlockKinds)
    /\ pc = "functions"
    /\ NoPosition
    /\ stream = <<>>
    /\ NoParse
    /\ evals = <<>>
    /\ errors = <<>>
    /\ NoMain

ParseModuleDocstring ==
    /\ pc = "start"
    /\ moddoc' = parse_module_docstring(source)
    /\ pc' = "functions"
    /\ UNCHANGED <<source, posVars, stream, functions, classes, methods>>
    /\ UNCHANGED <<evals, errors, mainVars>>

ParseFunctions ==
    /\ pc = "functions"
    /\ functions' = parse_functions(source)
    /\ pc' = "classes"
    /\ UNCHANGED <<source, posVars, stream, moddoc, classes, methods>>
    /\ UNCHANGED <<evals, errors, mainVars>>

ParseClasses ==
    /\ pc = "classes"
    /\ classes' = parse_classes(source)
    /\ pc' = "methods"
    /\ UNCHANGED <<source, posVars, stream, moddoc, functions, methods>>
    /\ UNCHANGED <<evals, errors, mainVars>>

ParseMethods ==
    /\ pc = "methods"
    /\ methods' = parse_methods(source)
    /\ pc' = "extracted"
    /\ UNCHANGED <<source, posVars, stream, moddoc, functions, classes>>
    /\ UNCHANGED <<evals, errors, mainVars>>

CheckSource ==
    /\ pc = "extracted"
    /\ evals' = Evaluations(source)
    /\ errors' = Errors(source, "a.py", evals')
    /\ pc' = "checked"
    /\ UNCHANGED <<source, posVars, stream, parseVars, mainVars>>

NextExtract == ParseFunctions \/ ParseClasses \/ ParseMethods

Next == ParseModuleDocstring \/ NextExtract \/ CheckSource

Spec == Init /\ [][Next]_vars

SpecExtract == InitExtract /\ [][NextExtract]_vars

\* ------------------------------------------ scans of a cut token stream
(* The scans of parse_top_level and parse_methods over a token generator   *)
(* that stops early: a prefix of the tokens of a file.                     *)
Prefixes(toks) == {SubSeq(toks, 1, n) : n \in 0..Len(toks)}

InitTokens ==
    /\ source \in Programs(MaxStreamLines, BlockKinds)
    /\ stream \in Prefixes(generate_tokens(source))
    /\ pc = "scan_functions"
    /\ NoPosition
    /\ NoParse
    /\ evals = <<>>
    /\ errors = <<>>
    /\ NoMain

ScanFunctions ==
    /\ pc = "scan_functions"
    /\ functions' = parse_top_level_tokens(stream, kw_def)
    /\ pc' = "scan_classes"
    /\ UNCHANGED <<source, posVars, stream, moddoc, classes, methods>>
    /\ UNCHANGED <<evals, errors, mainVars>>

ScanClasses ==
    /\ pc = "scan_classes"
    /\ classes' = parse_top_level_tokens(stream, kw_class)
    /\ pc' = "scan_methods"
    /\ UNCHANGED <<source, posVars, stream, moddoc, functions, methods>>
    /\ UNCHANGED <<evals, errors, mainVars>>

ScanMethods ==
    /\ pc = "scan_methods"
    /\ methods' = parse_methods_tokens(stream)
    /\ pc' = "scanned"
    /\ UNCHANGED <<source, posVars, stream, moddoc, functions, classes>>
    /\ UNCHANGED <<evals, errors, mainVars>>

NextTokens == ScanFunctions \/ ScanClasses \/ ScanMethods

SpecTokens == InitTokens /\ [][NextTokens]_vars

\* check_source as main uses it: the list of the Error objects it yields,
\* each with the attributes __cmp__ and __str__ read
Attributes(es) ==
    [k \in 1..Len(es) |->
        [filename |-> es[k].filename, message |-> es[k].message,
         explanation |-> es[k].explanation,
         start |-> es[k].start, end |-> es[k].end,
         pos |-> es[k].pos, end_pos |-> es[k].end_pos]]

check_source(src, filename) == Attributes(Errors(src, filename, Evaluations(src)))

\* ------------------------------------------------------------------ main
\* the filenames of the command line, in the order of their strings
FileNames == <<"a.py", "b.py">>

Rank(filename) == CHOOSE k \in DOMAIN FileNames : FileNames[k] = filename

\* cmp of two integers
cmp(x, y) == IF x < y THEN -1 ELSE IF x > y THEN 1 ELSE 0

\* a variant of Error.__cmp__ that compares (start, filename)
Error__cmp__StartFirst(self, other) ==
    IF self.start # other.start
    THEN cmp(self.start, other.start)
    ELSE cmp(Rank(self.filename), Rank(other.filename))

\* Error.__cmp__: cmp((filename, start), (filename, start)), tuples compare
\* by their first differing element
Error__cmp__(self, other) ==
    IF self.filename # other.filename
    THEN cmp(Rank(self.filename), Rank(other.filename))
    ELSE cmp(self.start, other.start)

\* sorted(errors): a stable sort by __cmp__
RECURSIVE Insert(_, _)
Insert(e, seq) ==
    IF seq = <<>> THEN <<e>>
    ELSE IF Error__cmp__(e, Head(seq)) < 0 THEN <<e>> \o seq
    ELSE <<Head(seq)>> \o Insert(e, Tail(seq))

RECURSIVE sorted(_)
sorted(seq) ==
    IF seq = <<>> THEN <<>>
    ELSE Insert(seq[Len(seq)], sorted(SubSeq(seq, 1, Len(seq) - 1)))

DocKinds == {"def", "str", "str2"}

Arguments == {<<"a.py">>, <<"b.py">>, <<"a.py", "b.py">>, <<"b.py", "a.py">>}

InitMain ==
    /\ todo \in Arguments
    /\ pc = "collect"
    /\ source = <<>>
    /\ NoPosition
    /\ stream = <<>>
    /\ NoParse
    /\ evals = <<>>
    /\ errors = <<>>
    /\ report = <<>>
    /\ printed = <<>>

\* lines 203-204: one file is read and its errors are collected
Extend ==
    /\ pc = "collect"
    /\ todo # <<>>
    /\ \E src \in Programs(MaxFileLines, DocKinds) :
           errors' = errors \o check_source(src, Head(todo))
    /\ todo' = Tail(todo)
    /\ UNCHANGED <<source, pc, posVars, stream, parseVars, evals, report, printed>>

\* line 205: sorted(errors)
Sort ==
    /\ pc = "collect"
    /\ todo = <<>>
    /\ report' = sorted(errors)
    /\ pc' = "print"
    /\ UNCHANGED <<source, posVars, stream, parseVars, evals, errors, todo, printed>>

\* line 206: print error
PrintError ==
    /\ pc = "print"
    /\ report # <<>>
    /\ printed' = Append(printed, Head(report))
    /\ report' = Tail(report)
    /\ UNCHANGED <<source, pc, posVars, stream, parseVars, evals, errors, todo>>

NextMain == Extend \/ Sort \/ PrintError

SpecMain == InitMain /\ [][NextMain]_vars

\* main has printed everything
Finished == pc = "print" /\ report = <<>>

\* ------------------------------------------------- positions: properties
\* (line, col) is a position inside s: a character of one of its lines, the
\* newline being the last character of its line, or the end of the text when
\* the last line has no newline
ValidPosition(m, s) ==
    LET lines == readlines(s)
    IN  /\ m[1] >= 1
        /\ m[1] <= Len(lines)
        /\ \/ m[2] < Len(lines[m[1]])
           \/ /\ m[1] = Len(lines)
              /\ lines[m[1]][Len(lines[m[1]])] # NL
              /\ m[2] = Len(lines[m[1]])

\* C1: for every position (line, col) inside the source,
\* rel_pos(abs_pos((line, col), source), source) returns (line, col).
C1_RoundTrip ==
    (pc = "rel" /\ ValidPosition(marker, source))
        => position = [err |-> "none", val |-> marker]

\* C2: abs_pos ends in an out-of-range error whenever the line of the marker
\* is greater than the number of lines of the source.
C2_AbsPosOutOfRange ==
    (pc = "abs" /\ marker[1] > Len(readlines(source)))
        => offset.err = "OutOfRangeError"

\* -------------------------------------------- extraction: properties
\* the first token from i on that is not a COMMENT, NEWLINE or NL token
RECURSIVE FirstSubstantive(_, _)
FirstSubstantive(toks, i) ==
    IF i > Len(toks) \/ toks[i].kind \notin {"COMMENT", "NEWLINE", "NL"}
    THEN i
    ELSE FirstSubstantive(toks, i + 1)

\* the module rule: the first substantive token, if it is a STRING
ModuleRule(toks) ==
    LET k == FirstSubstantive(toks, 1)
    IN  IF k <= Len(toks) /\ toks[k].kind = "STRING" THEN toks[k].value ELSE None

\* the first NEWLINE token from i on: the end of the logical line
RECURSIVE LineEnd(_, _)
LineEnd(toks, i) ==
    IF i > Len(toks) \/ toks[i].kind = "NEWLINE" THEN i ELSE LineEnd(toks, i + 1)

\* the definition whose keyword is token si has an indented body: its header
\* ends in a colon and a NEWLINE, and an INDENT follows
BodyIndent(toks, si) ==
    LET j == LineEnd(toks, si)
        k == FirstSubstantive(toks, j)
    IN  IF /\ j <= Len(toks)
           /\ toks[j - 1].kind = "OP"
           /\ k <= Len(toks)
           /\ toks[k].kind = "INDENT"
        THEN k ELSE 0

\* the definition rule: the STRING right after the INDENT of the own body of
\* the definition that token si starts
OwnDocstring(toks, si) ==
    LET k == BodyIndent(toks, si)
    IN  IF k > 0 /\ k < Len(toks) /\ toks[k + 1].kind = "STRING"
        THEN toks[k + 1].value ELSE None

\* C3: when the first token of the module that is not a COMMENT, NEWLINE or
\* NL is not a STRING, parse_module_docstring returns None.
C3_ModuleDocstringAbsent ==
    (pc # "start" /\ ModuleRule(generate_tokens(source)) = None)
        => moddoc.val = None

\* C4: for every function, class or method context of the extractor,
\* parse_docstring returns the STRING right after the first INDENT of the own
\* body of the definition, and None when there is none there.
C4_DocstringAbsence ==
    pc = "checked" =>
        \A i \in DOMAIN evals :
            evals[i].context.kind # "module" =>
                evals[i].docstring =
                    OwnDocstring(generate_tokens(evals[i].context.text), 1)

\* C7: the span of a diagnostic built without offsets is the place in the
\* file of the docstring of the checked context: start lies in the span of
\* the context and end = start + length of the docstring.
C7_DefaultSpan ==
    pc = "checked" =>
        \A i \in DOMAIN errors :
            /\ errors[i].context.lo <= errors[i].start
            /\ errors[i].start < errors[i].context.hi
            /\ errors[i].end = errors[i].start + Len(errors[i].docstring)

\* C9: on the whole-file context check_source hands every check the
\* docstring of the module rule, never a string from behind an INDENT.
C9_ModuleContextRule ==
    pc = "checked" =>
        \A i \in DOMAIN evals :
            evals[i].context.kind = "module" =>
                evals[i].docstring = ModuleRule(generate_tokens(source))

\* a def or class keyword at column 0
IsDefinitionKeyword(tok) ==
    tok.kind = "NAME" /\ tok.value \in {kw_def, kw_class} /\ tok.char = 0

OneDefinition(toks, span) ==
    /\ IsDefinitionKeyword(toks[span.si])
    /\ \A k \in (span.si + 1)..(span.ei - 1) : ~IsDefinitionKeyword(toks[k])

\* C10: a span of parse_top_level starts at a keyword at column 0 and holds
\* no other def or class keyword at column 0.
C10_OneDefinitionPerSpan ==
    pc \in {"extracted", "checked"} =>
        /\ \A i \in DOMAIN functions.spans :
               OneDefinition(generate_tokens(source), functions.spans[i])
        /\ \A i \in DOMAIN classes.spans :
               OneDefinition(generate_tokens(source), classes.spans[i])

\* INDENT tokens less DEDENT tokens among toks[a..b]
Depth(toks, a, b) ==
    Cardinality({k \in a..b : toks[k].kind = "INDENT"})
        - Cardinality({k \in a..b : toks[k].kind = "DEDENT"})

\* the DEDENT that closes the block the INDENT token fi opens (0: none does)
MatchingDedent(toks, fi) ==
    LET closing == {m \in (fi + 1)..Len(toks) : Depth(toks, fi, m) = 0}
    IN  IF closing = {} THEN 0
        ELSE CHOOSE m \in closing : \A n \in closing : m <= n

\* the span of a definition with an indented body ends where the DEDENT that
\* closes that body stands
EndsAt(toks, span, m) ==
    m > 0 /\ span.end = <<toks[m].line, toks[m].char>>

ClosedBy(toks, span, fi) ==
    fi > 0 => EndsAt(toks, span, MatchingDedent(toks, fi))

CoversBody(toks, span) == ClosedBy(toks, span, BodyIndent(toks, span.si))

AllCoverBody(toks, spans) ==
    \A i \in DOMAIN spans : CoversBody(toks, spans[i])

\* the body of the definition holds an inner block that is closed before the
\* body goes on
HasInnerBlock(toks, span) ==
    LET fi == BodyIndent(toks, span.si)
        m == MatchingDedent(toks, fi)
    IN  /\ fi > 0
        /\ m > 0
        /\ \E k \in (fi + 1)..(m - 2) :
               toks[k].kind = "DEDENT" /\ toks[k + 1].kind # "DEDENT"

ClassTokens == generate_tokens(Join(Texts_of(classes.spans)))

\* C5: a top-level function or class, and a method, with an indented body is
\* one span that ends at the DEDENT closing that body, whatever blocks the
\* body nests; it never ends where only an inner block is closed.
C5_NestingCorrectness ==
    pc = "extracted" =>
        /\ AllCoverBody(generate_tokens(source), functions.spans \o classes.spans)
        /\ AllCoverBody(ClassTokens, methods.spans)

C5_Witness ==
    /\ pc = "extracted"
    /\ \E i \in DOMAIN classes.spans :
           HasInnerBlock(generate_tokens(source), classes.spans[i])
    /\ \E i \in DOMAIN methods.spans :
           HasInnerBlock(ClassTokens, methods.spans[i])

Key(e) == <<e.filename, e.start>>

KeyBefore(e, f) ==
    \/ Rank(e.filename) < Rank(f.filename)
    \/ e.filename = f.filename /\ e.start <= f.start

Ordered(seq) ==
    \A i \in DOMAIN seq : \A j \in DOMAIN seq : i < j => KeyBefore(seq[i], seq[j])

WithKey(seq, k) == SelectSeq(seq, LAMBDA e : Key(e) = k)

Keys(seq) == {Key(seq[i]) : i \in DOMAIN seq}

\* C8: main prints the diagnostics by filename first and by start second:
\* what is printed is ordered by (filename, start) at every moment, and when
\* main is done the diagnostics of each (filename, start) are the collected
\* ones, in the order of their collection, whatever their message,
\* explanation and end are.
C8_ReportOrdering ==
    /\ Ordered(printed)
    /\ Finished =>
           /\ Len(printed) = Len(errors)
           /\ \A k \in Keys(errors) \cup Keys(printed) :
                  WithKey(printed, k) = WithKey(errors, k)

\* both files have diagnostics, b.py was given first, the diagnostics of a
\* file were not collected by ascending start, and a diagnostic of a.py has a
\* greater start and another message than one of b.py
C8_Witness ==
    /\ Finished
    /\ ~Ordered(errors)
    /\ errors[1].filename = "b.py"
    /\ \E i \in DOMAIN errors : \E j \in DOMAIN errors :
           /\ i < j
           /\ errors[i].filename = errors[j].filename
           /\ errors[i].start > errors[j].start
    /\ \E i \in DOMAIN printed : \E j \in DOMAIN printed :
           /\ printed[i].filename = "a.py"
           /\ printed[j].filename = "b.py"
           /\ printed[i].start > printed[j].start
           /\ printed[i].message # printed[j].message

====
